---------------------------- MODULE Spec2Model ----------------------------
(***************************************************************************)
(* A model of the todo service of boilerplate/main.py and of its binary    *)
(* transport adapter boilerplate/protobuf_utils.py.                        *)
(*                                                                         *)
(* The service runs on one cooperatively scheduled event loop (uvicorn.run *)
(* of an app whose handlers are all `async def`).  A request suspends only *)
(* where its code awaits something that is not ready: the read of the      *)
(* request body.  duckdb calls are synchronous, and entering or leaving    *)
(* `async with get_db()` awaits nothing that suspends, so from the moment  *)
(* a handler starts until its response is produced no other request runs.  *)
(* The variable `loop` holds the request that owns the event loop; the     *)
(* statements of a handler are separate steps, so the states in which a    *)
(* connection is open are states of the model.                             *)
(***************************************************************************)
EXTENDS Integers, Sequences, FiniteSets, TLC

(***************************************************************************)
(* Bounds of the model.                                                    *)
(***************************************************************************)
\* requests that may be in flight at once
MaxSlots == 2
\* values the sequence todo_id_seq hands out before creates are refused
MaxSeq == 2
\* length of a request body in bytes
MaxBody == 3
\* last tick of the store's clock (CURRENT_TIMESTAMP)
MaxClock == 1
\* ticks of the store's clock per second (timestamps are finer than seconds)
TicksPerSecond == 2

\* The byte values bodies and titles are drawn from: an invalid tag, a
\* length or a value of zero (0), a length or a value of one (1), the tag
\* of field 1 as a varint (8), the tag of field 1 as a length-delimited
\* value (10).  All are ASCII, so any text they spell is well-formed UTF-8.
Byte == {0, 1, 8, 10}

RECURSIVE SeqsUpTo(_, _)
SeqsUpTo(S, n) ==
    IF n = 0 THEN {<<>>}
    ELSE LET shorter == SeqsUpTo(S, n - 1)
         IN  shorter \cup {Append(q, x) : q \in shorter, x \in S}

Bodies == SeqsUpTo(Byte, MaxBody)

\* the values of the form field title: none, or one byte
FormTitles == {<<>>} \cup {<<b>> : b \in Byte}

\* path parameters todo_id: every id the sequence can hand out, and one more
TodoIds == 1 .. (MaxSeq + 1)

Slots == 1 .. MaxSlots

(***************************************************************************)
(* The message schema (protos/todo.proto, compiled to protos.todo_pb2).    *)
(* A message is a record with its type in `kind`; an optional submessage   *)
(* is a sequence of length 0 or 1.  Text is a sequence of bytes.           *)
(***************************************************************************)
NoMessage == [kind |-> "None"]

CreateTodoRequest(title) == [kind |-> "CreateTodoRequest", title |-> title]

UpdateTodoRequest(completed) == [kind |-> "UpdateTodoRequest", completed |-> completed]

Todo(id, title, completed, created_at) ==
    [kind |-> "Todo", id |-> id, title |-> title, completed |-> completed,
     created_at |-> created_at]

TodoList(todos) == [kind |-> "TodoList", todos |-> todos]

TodoStats(total, completed, active) ==
    [kind |-> "TodoStats", total |-> total, completed |-> completed, active |-> active]

ApiResponse(success, message, todo, stats) ==
    [kind |-> "ApiResponse", success |-> success, message |-> message,
     todo |-> todo, stats |-> stats]

MessageKinds ==
    {"CreateTodoRequest", "UpdateTodoRequest", "Todo", "TodoList", "TodoStats",
     "ApiResponse"}

\* isinstance(x, google.protobuf.message.Message)
IsMessage(x) == x.kind \in MessageKinds

\* the default-constructed message of a type: message_type()
DefaultMessage(message_type) ==
    IF message_type = "CreateTodoRequest" THEN CreateTodoRequest(<<>>)
    ELSE UpdateTodoRequest(FALSE)

(***************************************************************************)
(* The wire format: decoding (Message.ParseFromString).                    *)
(***************************************************************************)
\* A base-128 varint read from b at position i.  A body is shorter than the
\* ten bytes at which a varint overflows 64 bits.
RECURSIVE ReadVarint(_, _)
ReadVarint(b, i) ==
    IF i > Len(b) THEN [ok |-> FALSE, val |-> 0, next |-> i]
    ELSE IF b[i] < 128 THEN [ok |-> TRUE, val |-> b[i], next |-> i + 1]
    ELSE LET r == ReadVarint(b, i + 1)
         IN  [ok |-> r.ok, val |-> (b[i] - 128) + 128 * r.val, next |-> r.next]

DecodeError == [ok |-> FALSE, msg |-> NoMessage]

\* A field of the wire that the schema names, with the wire type the schema
\* gives it, is stored (the last occurrence wins); any other field is an
\* unknown field and is skipped.
StoreField(msg, fld, wt, val) ==
    IF msg.kind = "CreateTodoRequest" /\ fld = 1 /\ wt = 2
        THEN [msg EXCEPT !.title = val]
    ELSE IF msg.kind = "UpdateTodoRequest" /\ fld = 1 /\ wt = 0
        THEN [msg EXCEPT !.completed = (val # 0)]
    ELSE msg

RECURSIVE MergeFromString(_, _, _)
MergeFromString(msg, b, i) ==
    IF i > Len(b) THEN [ok |-> TRUE, msg |-> msg]
    ELSE
    LET t == ReadVarint(b, i) IN
    IF ~t.ok THEN DecodeError
    ELSE
    LET fld == t.val \div 8
        wt == t.val % 8
    IN
    IF fld = 0 THEN DecodeError
    ELSE IF wt = 0 THEN
        LET v == ReadVarint(b, t.next)
        IN  IF ~v.ok THEN DecodeError
            ELSE MergeFromString(StoreField(msg, fld, wt, v.val), b, v.next)
    ELSE IF wt = 2 THEN
        LET n == ReadVarint(b, t.next) IN
        IF ~n.ok THEN DecodeError
        ELSE IF n.next + n.val - 1 > Len(b) THEN DecodeError
        ELSE
        LET payload == SubSeq(b, n.next, n.next + n.val - 1)
        IN  MergeFromString(StoreField(msg, fld, wt, payload), b, n.next + n.val)
    ELSE IF wt = 1 THEN
        IF t.next + 7 > Len(b) THEN DecodeError
        ELSE MergeFromString(msg, b, t.next + 8)
    ELSE IF wt = 5 THEN
        IF t.next + 3 > Len(b) THEN DecodeError
        ELSE MergeFromString(msg, b, t.next + 4)
    \* wire types 6 and 7 do not exist, 4 ends a group that was not begun, and
    \* 3 begins a group, which a body of at most MaxBody bytes over Byte
    \* cannot hold (no tag over Byte has wire type 3)
    ELSE DecodeError

\* message = message_type(); message.ParseFromString(body)
ParseFromString(message_type, body) ==
    MergeFromString(DefaultMessage(message_type), body, 1)

(***************************************************************************)
(* The wire format: encoding (Message.SerializeToString).  Scalar fields   *)
(* holding their default are not written; a submessage that is set is.     *)
(***************************************************************************)
RECURSIVE WriteVarint(_)
WriteVarint(n) ==
    IF n < 128 THEN <<n>> ELSE <<(n % 128) + 128>> \o WriteVarint(n \div 128)

WriteTag(fld, wt) == WriteVarint(fld * 8 + wt)

\* a non-negative integer field (no count or id of the service is negative)
WriteInt(fld, v) == IF v = 0 THEN <<>> ELSE WriteTag(fld, 0) \o WriteVarint(v)

WriteBool(fld, v) == IF v THEN WriteTag(fld, 0) \o <<1>> ELSE <<>>

WriteString(fld, s) ==
    IF s = <<>> THEN <<>> ELSE WriteTag(fld, 2) \o WriteVarint(Len(s)) \o s

WriteMessage(fld, payload) == WriteTag(fld, 2) \o WriteVarint(Len(payload)) \o payload

SerializeTodo(m) ==
    WriteInt(1, m.id) \o WriteString(2, m.title) \o WriteBool(3, m.completed)
        \o WriteInt(4, m.created_at)

SerializeTodoStats(m) ==
    WriteInt(1, m.total) \o WriteInt(2, m.completed) \o WriteInt(3, m.active)

RECURSIVE SerializeTodos(_)
SerializeTodos(ts) ==
    IF ts = <<>> THEN <<>>
    ELSE WriteMessage(1, SerializeTodo(Head(ts))) \o SerializeTodos(Tail(ts))

SerializeToString(m) ==
    CASE m.kind = "Todo" -> SerializeTodo(m)
      [] m.kind = "TodoStats" -> SerializeTodoStats(m)
      [] m.kind = "TodoList" -> SerializeTodos(m.todos)
      [] m.kind = "ApiResponse" ->
            WriteBool(1, m.success) \o WriteString(2, m.message)
                \o (IF m.todo = <<>> THEN <<>>
                    ELSE WriteMessage(3, SerializeTodo(m.todo[1])))
                \o (IF m.stats = <<>> THEN <<>>
                    ELSE WriteMessage(4, SerializeTodoStats(m.stats[1])))
      [] m.kind = "CreateTodoRequest" -> WriteString(1, m.title)
      [] m.kind = "UpdateTodoRequest" -> WriteBool(1, m.completed)

(***************************************************************************)
(* Text of the program, as bytes.                                          *)
(***************************************************************************)
\* "Todo created"
TodoCreated == <<84, 111, 100, 111, 32, 99, 114, 101, 97, 116, 101, 100>>

\* "Todo updated"
TodoUpdated == <<84, 111, 100, 111, 32, 117, 112, 100, 97, 116, 101, 100>>

\* "Todo deleted"
TodoDeleted == <<84, 111, 100, 111, 32, 100, 101, 108, 101, 116, 101, 100>>

\* {"detail":"Not Found"}: the JSON body of HTTPException(status_code=404),
\* whose detail defaults to the status phrase
NotFoundDetail ==
    <<123, 34, 100, 101, 116, 97, 105, 108, 34, 58, 34, 78, 111, 116, 32, 70,
      111, 117, 110, 100, 34, 125>>

\* "Internal Server Error"
InternalServerError ==
    <<73, 110, 116, 101, 114, 110, 97, 108, 32, 83, 101, 114, 118, 101, 114,
      32, 69, 114, 114, 111, 114>>

(***************************************************************************)
(* Responses.                                                              *)
(***************************************************************************)
None == [kind |-> "None"]

Response(cls, status_code, media_type, body) ==
    [kind |-> "Response", cls |-> cls, status_code |-> status_code,
     media_type |-> media_type, body |-> body]

\* class ProtobufResponse(Response): media_type and render
ProtobufResponse(content) ==
    IF IsMessage(content)
        THEN Response("ProtobufResponse", 200, "application/x-protobuf",
                      SerializeToString(content))
    ELSE IF content.kind = "bytes"
        THEN Response("ProtobufResponse", 200, "application/x-protobuf", content.data)
    ELSE [kind |-> "ValueError"]

\* templates.TemplateResponse(name, context): the rendering is the template
\* engine's; the response is the template's name and its context
TemplateResponse(name, context) ==
    [kind |-> "Response", cls |-> "TemplateResponse", status_code |-> 200,
     media_type |-> "text/html", template |-> name, context |-> context]

\* What the hosting framework answers for an exception that leaves a
\* dependency or a handler.  The app registers no exception handler, so an
\* HTTPException becomes a JSON body with its status, a request validation
\* error a 422, and any other exception a 500.
ErrorResponse(exc) ==
    CASE exc = "HTTPException404" ->
            Response("JSONResponse", 404, "application/json", NotFoundDetail)
      [] exc = "RequestValidationError" ->
            [kind |-> "Response", cls |-> "JSONResponse", status_code |-> 422,
             media_type |-> "application/json", errors |-> <<"missing">>]
      [] OTHER ->
            Response("PlainTextResponse", 500, "text/plain", InternalServerError)

(***************************************************************************)
(* ProtobufRouter._wrap_endpoint: the two wrappers.                        *)
(***************************************************************************)
async_wrapper(result) ==
    IF IsMessage(result) THEN ProtobufResponse(result) ELSE result

\* (variant: the result wrapped without the isinstance check)
sync_wrapper_always(result) == ProtobufResponse(result)

sync_wrapper(result) ==
    IF IsMessage(result) THEN ProtobufResponse(result) ELSE result

\* a handler is its calling convention and the value it returns
wrap_endpoint(func) ==
    [wrapper |-> IF func.is_coroutine THEN "async_wrapper" ELSE "sync_wrapper",
     func |-> func]

call_wrapped(w) ==
    IF w.wrapper = "async_wrapper" THEN async_wrapper(w.func.result)
    ELSE sync_wrapper(w.func.result)

(***************************************************************************)
(* The store: the table todos and the sequence todo_id_seq.  A row is      *)
(* (id, title, completed, created_at), created_at in ticks of the clock.   *)
(***************************************************************************)
Row(id, title, completed, created_at) ==
    [id |-> id, title |-> title, completed |-> completed, created_at |-> created_at]

Ids(T) == {r.id : r \in T}

Max0(S) == IF S = {} THEN 0 ELSE CHOOSE m \in S : \A k \in S : k <= m

\* INSERT INTO todos (title) VALUES (?): the row the column defaults give,
\* id from nextval('todo_id_seq') where the sequence last gave s
\* (variant: the id taken as one more than the greatest id in the table)
insert_row_maxid(T, s, title, now) == Row(Max0(Ids(T)) + 1, title, FALSE, now)

insert_row(T, s, title, now) == Row(s + 1, title, FALSE, now)

\* SELECT * FROM todos ORDER BY created_at DESC: every order of the rows in
\* which created_at does not increase (rows of one tick come in any order)
select_all(T) ==
    {q \in [1 .. Cardinality(T) -> T] :
        /\ \A i, j \in 1 .. Cardinality(T) : i # j => q[i] # q[j]
        /\ \A i, j \in 1 .. Cardinality(T) : i < j => q[i].created_at >= q[j].created_at}

\* UPDATE todos SET completed = ? WHERE id = ?
update_completed(T, completed, id) ==
    {IF r.id = id THEN [r EXCEPT !.completed = completed] ELSE r : r \in T}

\* SELECT * FROM todos WHERE id = ? ... fetchone(): a row, or none
select_by_id(T, id) ==
    IF \E r \in T : r.id = id THEN <<CHOOSE r \in T : r.id = id>> ELSE <<>>

\* DELETE FROM todos WHERE id = ?
\* (variant: WHERE id <= ?)
delete_by_id_upto(T, id) == {r \in T : r.id > id}

delete_by_id(T, id) == {r \in T : r.id # id}

\* SELECT COUNT(*) FROM todos
count_all(T) == Cardinality(T)

\* SELECT COUNT(*) FROM todos WHERE completed = TRUE
count_completed(T) == Cardinality({r \in T : r.completed})

\* row_to_todo_proto: created_at is the whole seconds of the timestamp
row_to_todo_proto(row) ==
    Todo(row.id, row.title, row.completed, row.created_at \div TicksPerSecond)

RECURSIVE rows_to_todos(_)
rows_to_todos(rows) ==
    IF rows = <<>> THEN <<>>
    ELSE <<row_to_todo_proto(Head(rows))>> \o rows_to_todos(Tail(rows))

\* the template context of home and create_todo: one dict per row
RECURSIVE rows_to_dicts(_)
rows_to_dicts(rows) ==
    IF rows = <<>> THEN <<>>
    ELSE <<[id |-> Head(rows).id, title |-> Head(rows).title,
            completed |-> Head(rows).completed,
            created_at |-> Head(rows).created_at]>> \o rows_to_dicts(Tail(rows))

\* get_db: leaving the `async with` block, by return or by an exception
\* (variant: conn.close() after the yield, outside any finally)
get_db_exit_no_finally(o, s, raised) == IF raised THEN o ELSE [o EXCEPT ![s] = @ - 1]

get_db_exit(o, s, raised) == [o EXCEPT ![s] = @ - 1]

(***************************************************************************)
(* The handlers' return statements: [exc, value].                          *)
(***************************************************************************)
Returns(value) == [exc |-> "none", value |-> value]

Raises(exc) == [exc |-> exc, value |-> None]

get_todos_proto_return(sl) == Returns(TodoList(rows_to_todos(sl.rows)))

create_todo_proto_return(sl) ==
    Returns(ApiResponse(TRUE, TodoCreated, <<row_to_todo_proto(sl.rows[1])>>, <<>>))

\* (variant: no `if not row` check; the envelope reports the miss)
toggle_todo_proto_return_no_check(sl) ==
    Returns(ApiResponse(sl.rows # <<>>, TodoUpdated, rows_to_todos(sl.rows), <<>>))

toggle_todo_proto_return(sl) ==
    IF sl.rows = <<>> THEN Raises("HTTPException404")
    ELSE Returns(ApiResponse(TRUE, TodoUpdated, <<row_to_todo_proto(sl.rows[1])>>, <<>>))

\* (variant: a 404 for a missing id, as toggle raises)
delete_todo_proto_return_checked(sl) ==
    IF sl.todo_id \notin Ids(sl.before) THEN Raises("HTTPException404")
    ELSE Returns(ApiResponse(TRUE, TodoDeleted, <<>>, <<>>))

delete_todo_proto_return(sl) == Returns(ApiResponse(TRUE, TodoDeleted, <<>>, <<>>))

\* (variant: active=total)
get_stats_proto_return_no_subtraction(sl) ==
    Returns(ApiResponse(TRUE, <<>>, <<>>,
                        <<TodoStats(sl.total, sl.completed, sl.total)>>))

get_stats_proto_return(sl) ==
    Returns(ApiResponse(TRUE, <<>>, <<>>,
                        <<TodoStats(sl.total, sl.completed, sl.total - sl.completed)>>))

home_return(sl) == Returns(TemplateResponse("index.html", rows_to_dicts(sl.rows)))

create_todo_return(sl) ==
    Returns(TemplateResponse("partials/todo_list.html", rows_to_dicts(sl.rows)))

system_info_return(sl) ==
    Returns(TemplateResponse("partials/system_info.html", <<[todo_count |-> sl.total]>>))

ProtoRoutes ==
    {"get_todos_proto", "create_todo_proto", "toggle_todo_proto",
     "delete_todo_proto", "get_stats_proto"}

HtmlRoutes == {"home", "create_todo", "system_info"}

Routes == ProtoRoutes \cup HtmlRoutes

\* routes whose handler takes a ProtobufBody parameter, and the type it decodes
BodyRoutes == {"create_todo_proto", "toggle_todo_proto"}

BodyType(route) ==
    IF route = "create_todo_proto" THEN "CreateTodoRequest" ELSE "UpdateTodoRequest"

\* routes with a todo_id path parameter
IdRoutes == {"toggle_todo_proto", "delete_todo_proto"}

\* routes whose handler executes two statements
TwoStatementRoutes == {"toggle_todo_proto", "get_stats_proto", "create_todo"}

HandlerReturn(sl) ==
    CASE sl.route = "get_todos_proto" -> get_todos_proto_return(sl)
      [] sl.route = "create_todo_proto" -> create_todo_proto_return(sl)
      [] sl.route = "toggle_todo_proto" -> toggle_todo_proto_return(sl)
      [] sl.route = "delete_todo_proto" -> delete_todo_proto_return(sl)
      [] sl.route = "get_stats_proto" -> get_stats_proto_return(sl)
      [] sl.route = "home" -> home_return(sl)
      [] sl.route = "create_todo" -> create_todo_return(sl)
      [] sl.route = "system_info" -> system_info_return(sl)

\* parse_protobuf_body(request, message_type), given the body it read
\* (variant: a body that does not parse yields the default message)
parse_protobuf_body_swallowing(body, message_type) ==
    LET r == ParseFromString(message_type, body)
    IN  IF r.ok THEN r ELSE [ok |-> TRUE, msg |-> DefaultMessage(message_type)]

parse_protobuf_body(body, message_type) == ParseFromString(message_type, body)

(***************************************************************************)
(* State.                                                                  *)
(***************************************************************************)
VARIABLES
    todos,      \* the rows of the table todos
    seq,        \* the last value todo_id_seq gave (0: none yet)
    clock,      \* the store's clock, in ticks
    slot,       \* the requests in flight: slot[s] is request s
    loop,       \* the request that owns the event loop (0: none)
    open,       \* open[s]: the connections request s holds open
    listed,     \* history: id -> (title, completed) of every todo created and
                \* not deleted since, completed as its last toggle left it
    issued,     \* history: the ids given to inserted rows, in order
    registered, \* the router harness: the wrapped handler registered, or None
    answered    \* the router harness: what a call of the wrapped handler returned

vars ==
    <<todos, seq, clock, slot, loop, open, listed, issued, registered, answered>>

store == <<todos, seq, clock>>

history == <<listed, issued>>

harness == <<registered, answered>>

\* A request: its position (pc), its route and path parameter, what the
\* parameter providers decoded (req, title), what its statements fetched,
\* the exception it raised, the value its handler returned, and its
\* response.  Of the body it sent, `wire` keeps what the wire format makes
\* of it: whether it is well-formed for the route's type, and the message
\* it encodes.  `before` is the table as it was when the request took the
\* event loop.
IdleSlot ==
    [pc |-> "idle", route |-> "none", todo_id |-> 0, read |-> FALSE,
     wire |-> [ok |-> TRUE, msg |-> NoMessage], req |-> NoMessage, title |-> <<>>, started |-> FALSE,
     stmts |-> 0, rows |-> <<>>, total |-> 0, completed |-> 0, before |-> {},
     exc |-> "none", ret |-> None, resp |-> None]

NotCalled == [kind |-> "NotCalled"]

Init ==
    /\ todos = {}
    /\ seq = 0
    /\ clock = 0
    /\ slot = [s \in Slots |-> IdleSlot]
    /\ loop = 0
    /\ open = [s \in Slots |-> 0]
    /\ listed = <<>>
    /\ issued = <<>>
    /\ registered = None
    /\ answered = NotCalled

(***************************************************************************)
(* A request arrives and is dispatched by path and method.  A route with a *)
(* body parameter awaits the body; any other waits for the event loop.     *)
(* Requests take the lowest free slot.                                     *)
(***************************************************************************)
Receive(s, route, id) ==
    /\ slot[s].pc = "idle"
    /\ \A u \in Slots : u < s => slot[u].pc # "idle"
    /\ id = 0 <=> route \notin IdRoutes
    /\ slot' = [slot EXCEPT ![s] =
                  [IdleSlot EXCEPT !.pc = IF route \in BodyRoutes \cup {"create_todo"}
                                             THEN "body" ELSE "call",
                                   !.route = route, !.todo_id = id]]
    /\ UNCHANGED <<store, loop, open, history, harness>>

\* The dependency ProtobufBody(message_type): body = await request.body(),
\* then parse_protobuf_body.  A message goes on to the handler, with no
\* suspension in between; an exception goes to the framework.
Dependency(s) ==
    /\ loop = 0
    /\ slot[s].pc = "body"
    /\ slot[s].route \in BodyRoutes
    /\ \E body \in Bodies :
          LET r == parse_protobuf_body(body, BodyType(slot[s].route))
              sl == [slot[s] EXCEPT !.read = TRUE, !.before = todos,
                                    !.wire = ParseFromString(BodyType(slot[s].route), body)]
          IN  slot' = [slot EXCEPT ![s] =
                         IF r.ok THEN [sl EXCEPT !.pc = "call", !.req = r.msg]
                         ELSE [sl EXCEPT !.pc = "done", !.exc = "DecodeError",
                                         !.resp = ErrorResponse("DecodeError")]]
    /\ loop' = s
    /\ UNCHANGED <<store, open, history, harness>>

\* title: str = Form(...): a required form field; an empty value counts as
\* missing and is refused before the handler runs
FormDependency(s) ==
    /\ loop = 0
    /\ slot[s].pc = "body"
    /\ slot[s].route = "create_todo"
    /\ \E title \in FormTitles :
          LET sl == [slot[s] EXCEPT !.read = TRUE, !.title = title, !.before = todos]
          IN  slot' = [slot EXCEPT ![s] =
                         IF title # <<>> THEN [sl EXCEPT !.pc = "call"]
                         ELSE [sl EXCEPT !.pc = "done",
                                         !.exc = "RequestValidationError",
                                         !.resp = ErrorResponse("RequestValidationError")]]
    /\ loop' = s
    /\ UNCHANGED <<store, open, history, harness>>

\* The handler is called and enters `async with get_db() as conn`.
Connect(s) ==
    /\ slot[s].pc = "call"
    /\ loop \in {0, s}
    /\ loop' = s
    /\ open' = [open EXCEPT ![s] = @ + 1]
    /\ slot' = [slot EXCEPT ![s] =
                  [@ EXCEPT !.pc = "s1", !.started = TRUE,
                            !.before = IF loop = s THEN @ ELSE todos]]
    /\ UNCHANGED <<store, history, harness>>

\* the position after a handler's statement
AfterStatement(sl) ==
    IF sl.pc = "s1" /\ sl.route \in TwoStatementRoutes THEN "s2" ELSE "close"

Ran(sl) == [sl EXCEPT !.pc = AfterStatement(sl), !.stmts = @ + 1]

Running(s, route, pc) ==
    /\ loop = s
    /\ slot[s].route = route
    /\ slot[s].pc = pc

\* get_todos_proto and home: SELECT * FROM todos ORDER BY created_at DESC
SelectAll(s) ==
    /\ \/ Running(s, "get_todos_proto", "s1")
       \/ Running(s, "home", "s1")
       \/ Running(s, "create_todo", "s2")
    /\ \E rows \in select_all(todos) :
          slot' = [slot EXCEPT ![s] = [Ran(@) EXCEPT !.rows = rows]]
    /\ UNCHANGED <<store, loop, open, history, harness>>

\* create_todo_proto: INSERT ... RETURNING *; create_todo: INSERT.  The
\* clock reads the same or later than at the last insert.
Insert(s) ==
    /\ \/ Running(s, "create_todo_proto", "s1")
       \/ Running(s, "create_todo", "s1")
    /\ seq < MaxSeq
    /\ \E now \in clock .. MaxClock :
          LET title == IF slot[s].route = "create_todo_proto"
                       THEN slot[s].req.title ELSE slot[s].title
              row == insert_row(todos, seq, title, now)
          IN  /\ row.id \notin Ids(todos)
              /\ todos' = todos \cup {row}
              /\ seq' = seq + 1
              /\ clock' = now
              /\ listed' = [i \in DOMAIN listed \cup {row.id} |->
                                IF i = row.id
                                THEN [title |-> title, completed |-> FALSE]
                                ELSE listed[i]]
              /\ issued' = Append(issued, row.id)
              /\ slot' = [slot EXCEPT ![s] =
                            [Ran(@) EXCEPT !.rows =
                                IF slot[s].route = "create_todo_proto" THEN <<row>> ELSE <<>>]]
    /\ UNCHANGED <<loop, open, harness>>

\* toggle_todo_proto: UPDATE todos SET completed = ? WHERE id = ?
Update(s) ==
    /\ Running(s, "toggle_todo_proto", "s1")
    /\ todos' = update_completed(todos, slot[s].req.completed, slot[s].todo_id)
    /\ listed' =
          IF slot[s].todo_id \in Ids(todos) /\ slot[s].todo_id \in DOMAIN listed
          THEN [listed EXCEPT ![slot[s].todo_id].completed = slot[s].req.completed]
          ELSE listed
    /\ slot' = [slot EXCEPT ![s] = Ran(@)]
    /\ UNCHANGED <<seq, clock, loop, open, issued, harness>>

\* toggle_todo_proto: SELECT * FROM todos WHERE id = ?
SelectOne(s) ==
    /\ Running(s, "toggle_todo_proto", "s2")
    /\ slot' = [slot EXCEPT ![s] =
                  [Ran(@) EXCEPT !.rows = select_by_id(todos, slot[s].todo_id)]]
    /\ UNCHANGED <<store, loop, open, history, harness>>

\* delete_todo_proto: DELETE FROM todos WHERE id = ?
Delete(s) ==
    /\ Running(s, "delete_todo_proto", "s1")
    /\ todos' = delete_by_id(todos, slot[s].todo_id)
    /\ listed' = [i \in DOMAIN listed \ {slot[s].todo_id} |-> listed[i]]
    /\ slot' = [slot EXCEPT ![s] = Ran(@)]
    /\ UNCHANGED <<seq, clock, loop, open, issued, harness>>

\* get_stats_proto and system_info: SELECT COUNT(*) FROM todos
CountAll(s) ==
    /\ \/ Running(s, "get_stats_proto", "s1")
       \/ Running(s, "system_info", "s1")
    /\ slot' = [slot EXCEPT ![s] = [Ran(@) EXCEPT !.total = count_all(todos)]]
    /\ UNCHANGED <<store, loop, open, history, harness>>

\* get_stats_proto: SELECT COUNT(*) FROM todos WHERE completed = TRUE
CountCompleted(s) ==
    /\ Running(s, "get_stats_proto", "s2")
    /\ slot' = [slot EXCEPT ![s] = [Ran(@) EXCEPT !.completed = count_completed(todos)]]
    /\ UNCHANGED <<store, loop, open, history, harness>>

\* The `async with` block is left: get_db closes the connection.
Close(s) ==
    /\ loop = s
    /\ slot[s].pc = "close"
    /\ open' = get_db_exit(open, s, FALSE)
    /\ slot' = [slot EXCEPT ![s].pc = "return"]
    /\ UNCHANGED <<store, loop, history, harness>>

\* The handler returns or raises.  A handler registered through proto
\* returns through async_wrapper; what comes out is the response, or the
\* framework's answer to the exception.
Return(s) ==
    /\ loop = s
    /\ slot[s].pc = "return"
    /\ LET r == HandlerReturn(slot[s])
           out == IF slot[s].route \in ProtoRoutes
                  THEN call_wrapped(wrap_endpoint([is_coroutine |-> TRUE,
                                                   result |-> r.value]))
                  ELSE r.value
       IN  slot' = [slot EXCEPT ![s] =
                      [@ EXCEPT !.pc = "done", !.exc = r.exc, !.ret = r.value,
                                !.resp = IF r.exc = "none" THEN out
                                         ELSE ErrorResponse(r.exc)]]
    /\ UNCHANGED <<store, loop, open, history, harness>>

\* The response is sent and the request is over.
Complete(s) ==
    /\ loop = s
    /\ slot[s].pc = "done"
    /\ slot' = [slot EXCEPT ![s] = IdleSlot]
    /\ loop' = 0
    /\ UNCHANGED <<store, open, history, harness>>

(***************************************************************************)
(* Failures of the store: duckdb.connect or conn.execute raises.           *)
(***************************************************************************)
ConnectFails(s) ==
    /\ slot[s].pc = "call"
    /\ loop \in {0, s}
    /\ loop' = s
    /\ slot' = [slot EXCEPT ![s] =
                  [@ EXCEPT !.pc = "done", !.started = TRUE,
                            !.before = IF loop = s THEN @ ELSE todos,
                            !.exc = "StoreError",
                            !.resp = ErrorResponse("StoreError")]]
    /\ UNCHANGED <<store, open, history, harness>>

ExecuteFails(s) ==
    /\ loop = s
    /\ slot[s].pc \in {"s1", "s2"}
    /\ open' = get_db_exit(open, s, TRUE)
    /\ slot' = [slot EXCEPT ![s] =
                  [@ EXCEPT !.pc = "done", !.exc = "StoreError",
                            !.resp = ErrorResponse("StoreError")]]
    /\ UNCHANGED <<store, loop, history, harness>>

(***************************************************************************)
(* The router on its own: a handler of either calling convention, with any *)
(* return value, is registered under a verb and its wrapped form called.   *)
(***************************************************************************)
Verbs == {"get", "post", "put", "delete", "patch"}

HandlerResults ==
    {TodoList(<<>>),
     TodoList(<<Todo(1, <<8>>, TRUE, 0), Todo(2, <<>>, FALSE, 1)>>),
     Todo(1, <<8>>, FALSE, 1),
     TodoStats(0, 0, 0),
     TodoStats(2, 1, 1),
     ApiResponse(TRUE, TodoDeleted, <<>>, <<>>),
     ApiResponse(FALSE, <<>>, <<>>, <<>>),
     ApiResponse(TRUE, TodoCreated, <<Todo(1, <<8>>, FALSE, 0)>>, <<>>),
     ApiResponse(TRUE, <<>>, <<>>, <<TodoStats(1, 0, 1)>>),
     None,
     Response("Response", 404, "none", <<>>),
     Response("HTMLResponse", 200, "text/html", <<60, 112, 62>>),
     Response("ProtobufResponse", 200, "application/x-protobuf", <<8, 1>>),
     [kind |-> "bytes", data |-> <<8, 1>>],
     [kind |-> "dict", success |-> TRUE],
     [kind |-> "str", data |-> TodoDeleted]}

\* proto.<verb>(path)(func): _make_method registers the wrapped handler with
\* the router under the verb, response_class defaulting to ProtobufResponse
Register(verb, func) ==
    /\ registered = None
    /\ registered' = [kind |-> "route", verb |-> verb,
                      response_class |-> "ProtobufResponse",
                      endpoint |-> wrap_endpoint(func)]
    /\ UNCHANGED <<store, slot, loop, open, history, answered>>

CallWrapped ==
    /\ registered # None
    /\ answered = NotCalled
    /\ answered' = call_wrapped(registered.endpoint)
    /\ UNCHANGED <<store, slot, loop, open, history, registered>>

(***************************************************************************)
(* Specifications.                                                         *)
(***************************************************************************)
Serve ==
    \E s \in Slots :
        \/ \E route \in Routes, id \in {0} \cup TodoIds : Receive(s, route, id)
        \/ Dependency(s)
        \/ FormDependency(s)
        \/ Connect(s)
        \/ SelectAll(s)
        \/ Insert(s)
        \/ Update(s)
        \/ SelectOne(s)
        \/ Delete(s)
        \/ CountAll(s)
        \/ CountCompleted(s)
        \/ Close(s)
        \/ Return(s)
        \/ Complete(s)

Fail == \E s \in Slots : ConnectFails(s) \/ ExecuteFails(s)

Route ==
    \/ \E verb \in Verbs, is_coroutine \in BOOLEAN, result \in HandlerResults :
          Register(verb, [is_coroutine |-> is_coroutine, result |-> result])
    \/ CallWrapped

Next == Serve

NextFault == Serve \/ Fail

NextRouter == Route

\* the service, its store never failing
Spec == Init /\ [][Next]_vars

\* the service, with a store that may fail
SpecFault == Init /\ [][NextFault]_vars

\* the router on its own
SpecRouter == Init /\ [][NextRouter]_vars

(***************************************************************************)
(* The claims.                                                             *)
(***************************************************************************)
Done(s, route) == slot[s].route = route /\ slot[s].pc = "done"

\* C1: whenever GET /api/stats has answered, its Stats has
\* active + completed = total, total is the number of rows of the table,
\* completed the number of rows whose completed flag is true, and none of the
\* three counts is negative.
C1_StatsConsistent ==
    \A s \in Slots :
        Done(s, "get_stats_proto") =>
            /\ slot[s].exc = "none"
            /\ slot[s].ret.kind = "ApiResponse"
            /\ Len(slot[s].ret.stats) = 1
            /\ LET st == slot[s].ret.stats[1]
               IN  /\ st.active + st.completed = st.total
                   /\ st.total = Cardinality(todos)
                   /\ st.completed = Cardinality({r \in todos : r.completed})
                   /\ st.total >= 0
                   /\ st.completed >= 0
                   /\ st.active >= 0

\* C1's case: stats answered over a table of two rows, one of them
\* completed, while another request waits.
C1_Witness ==
    \E s \in Slots :
        /\ Done(s, "get_stats_proto")
        /\ slot[s].ret.stats[1] = TodoStats(2, 1, 1)
        /\ \E u \in Slots : slot[u].pc \in {"body", "call"}

\* C2: a request to a route with a decoded body whose body is malformed for
\* the route's type is answered with a 400-class status.
C2_MalformedBodyIsClientError ==
    \A s \in Slots :
        (slot[s].route \in BodyRoutes /\ slot[s].read /\ ~slot[s].wire.ok) =>
            /\ slot[s].pc = "done"
            /\ slot[s].resp.status_code \in 400 .. 499

\* C3: the wrapped form of a registered handler, of either calling
\* convention and under any verb, returns a response of the binary media
\* type carrying the encoding of the message the handler returned, and
\* returns any other value the handler returned unchanged.
C3_WrappedHandler ==
    (registered # None /\ answered # NotCalled) =>
        LET result == registered.endpoint.func.result
        IN  IF IsMessage(result)
            THEN /\ answered.kind = "Response"
                 /\ answered.media_type = "application/x-protobuf"
                 /\ answered.body = SerializeToString(result)
            ELSE answered = result

\* C3's case: a synchronous handler registered under patch returned a
\* message holding a todo, and its wrapped form was called.
C3_Witness ==
    /\ registered # None
    /\ answered # NotCalled
    /\ registered.verb = "patch"
    /\ ~registered.endpoint.func.is_coroutine
    /\ registered.endpoint.func.result.kind = "ApiResponse"
    /\ registered.endpoint.func.result.todo # <<>>
    /\ answered.kind = "Response"

\* a toggle that decoded its body and names an id the table did not hold
ToggledMissing(s) ==
    /\ Done(s, "toggle_todo_proto")
    /\ slot[s].wire.ok
    /\ slot[s].todo_id \notin Ids(slot[s].before)

Entries(L) ==
    {[id |-> L[i].id, title |-> L[i].title, completed |-> L[i].completed] :
        i \in 1 .. Len(L)}

Listed ==
    {[id |-> i, title |-> listed[i].title, completed |-> listed[i].completed] :
        i \in DOMAIN listed}

\* C5: whenever GET /api/todos has answered, its TodoList holds exactly one
\* entry for each todo created and not deleted since, with the id and title
\* of its creation and the completed flag of its last successful toggle
\* (false if none); and stats answered while no such todo exists are
\* total = 0, completed = 0, active = 0.
C5_ListIsHistory ==
    \A s \in Slots :
        /\ Done(s, "get_todos_proto") =>
              /\ slot[s].ret.kind = "TodoList"
              /\ Len(slot[s].ret.todos) = Cardinality(DOMAIN listed)
              /\ Entries(slot[s].ret.todos) = Listed
              /\ slot[s].resp = ProtobufResponse(slot[s].ret)
        /\ (Done(s, "get_stats_proto") /\ DOMAIN listed = {}) =>
              slot[s].ret.stats = <<TodoStats(0, 0, 0)>>

\* C5's case: the list answered after two creates, a delete of the first
\* todo and a toggle of the second to completed.
C5_Witness ==
    \E s \in Slots :
        /\ Done(s, "get_todos_proto")
        /\ Len(issued) = 2
        /\ Len(slot[s].ret.todos) = 1
        /\ slot[s].ret.todos[1].id = 2
        /\ slot[s].ret.todos[1].completed
        /\ slot[s].ret.todos[1].title # <<>>

\* C6: every todo of the table has a non-empty title.
C6_TitlesNonEmpty == \A r \in todos : r.title # <<>>

\* C7: the ids given to created todos increase strictly, starting at 1, so
\* no id is given twice, the stored todos have distinct ids, and the todo a
\* create returns has the greatest id given so far and is not completed.
C7_IdsIncrease ==
    /\ \A i, j \in 1 .. Len(issued) : i < j => issued[i] < issued[j]
    /\ Len(issued) > 0 => issued[1] = 1
    /\ Ids(todos) \subseteq {issued[i] : i \in 1 .. Len(issued)}
    /\ Cardinality(Ids(todos)) = Cardinality(todos)
    /\ \A s \in Slots :
          Done(s, "create_todo_proto") /\ slot[s].exc = "none" =>
              /\ slot[s].ret.success
              /\ Len(slot[s].ret.todo) = 1
              /\ slot[s].ret.todo[1].id = issued[Len(issued)]
              /\ \A i \in 1 .. Len(issued) - 1 : issued[i] < slot[s].ret.todo[1].id
              /\ ~slot[s].ret.todo[1].completed

\* C7's case: a create answered after the first todo was created and deleted.
C7_Witness ==
    \E s \in Slots :
        /\ Done(s, "create_todo_proto")
        /\ slot[s].exc = "none"
        /\ Len(issued) = 2
        /\ Ids(todos) = {2}

\* C8: whenever DELETE /api/todos/{id} has answered, its answer is an
\* ApiResponse with success set and neither todo nor stats, in a 200 of the
\* binary media type; the table is the table as it was less the todo of
\* that id, which is the table as it was when it held no such todo.
C8_DeleteAlwaysSucceeds ==
    \A s \in Slots :
        Done(s, "delete_todo_proto") =>
            /\ slot[s].exc = "none"
            /\ slot[s].ret = ApiResponse(TRUE, TodoDeleted, <<>>, <<>>)
            /\ slot[s].resp =
                  Response("ProtobufResponse", 200, "application/x-protobuf",
                           SerializeToString(slot[s].ret))
            /\ todos = {r \in slot[s].before : r.id # slot[s].todo_id}
            /\ slot[s].todo_id \notin Ids(slot[s].before) => todos = slot[s].before

\* C8's case: a delete of an id that is not in a table that holds a todo.
C8_Witness ==
    \E s \in Slots :
        /\ Done(s, "delete_todo_proto")
        /\ slot[s].before # {}
        /\ slot[s].todo_id \notin Ids(slot[s].before)

\* C9: a request holds at most one connection, and only while it owns the
\* event loop inside its `async with` block; a request that is waiting,
\* has left the block or has its response (whatever the exit: return,
\* decode failure, 404, store error) holds none.
C9_ConnectionsReleased ==
    /\ \A s \in Slots :
          /\ open[s] \in {0, 1}
          /\ open[s] = 1 => (loop = s /\ slot[s].pc \in {"s1", "s2", "close"})
          /\ slot[s].pc \in {"idle", "body", "call", "return", "done"} => open[s] = 0
    /\ \A s, u \in Slots : (open[s] = 1 /\ open[u] = 1) => s = u

\* C9's case: the second statement of a toggle raised a store error after
\* the first had run, and the request has its response.
C9_Witness ==
    \E s \in Slots :
        /\ Done(s, "toggle_todo_proto")
        /\ slot[s].exc = "StoreError"
        /\ slot[s].stmts = 1
        /\ open[s] = 0

\* C10: a request to a route with a decoded body that has called its
\* handler, opened a connection or executed a statement has decoded its
\* body, and its handler was given the message the body encodes; a request
\* whose body is malformed has called no handler, opened no connection and
\* executed no statement, is over, and has left the table as it was.
C10_DecodeBeforeHandler ==
    \A s \in Slots :
        slot[s].route \in BodyRoutes =>
            /\ (slot[s].started \/ open[s] > 0 \/ slot[s].stmts > 0) =>
                  /\ slot[s].read
                  /\ slot[s].wire.ok
                  /\ slot[s].req = slot[s].wire.msg
            /\ (slot[s].read /\ ~slot[s].wire.ok) =>
                  /\ ~slot[s].started
                  /\ slot[s].stmts = 0
                  /\ open[s] = 0
                  /\ slot[s].pc = "done"
                  /\ slot[s].exc = "DecodeError"
                  /\ todos = slot[s].before

\* C10's case: a toggle whose body is malformed is over, over a table that
\* holds a todo, while another request waits for its body.
C10_Witness ==
    \E s, u \in Slots :
        /\ Done(s, "toggle_todo_proto")
        /\ slot[s].read
        /\ ~slot[s].wire.ok
        /\ todos # {}
        /\ slot[u].pc = "body"

=============================================================================
